---- MODULE Spec2Model ----
(***************************************************************************)
(* Model of bytecode/concrete.py: the conversion of a symbolic, labelled   *)
(* instruction sequence to concrete instructions (pools and the jump       *)
(* fixpoint of _ConvertCodeToConcrete), the reconstruction of a symbolic   *)
(* sequence (ConcreteBytecode.to_bytecode), the byte codec                 *)
(* (ConcreteInstr.assemble / disassemble, the EXTENDED_ARG folding of      *)
(* from_code) and the line table (_assemble_code, _assemble_lnotab).       *)
(*                                                                         *)
(* A run of rep identical one-byte NOP instructions is kept as one list    *)
(* element with the field rep; every list index and byte offset is         *)
(* computed as for the rep separate instructions.                          *)
(***************************************************************************)
EXTENDS Integers, Sequences, FiniteSets, TLC

\* ------------------------------------------------------------------ bounds
MaxLen == 4
MaxPoolOps == 3
MaxPasses == 6
MaxCodeLen == 3
MaxLines == 3

\* --------------------------------------------------------------- constants
ARG_MAX == 2147483647
UNSET == -1
HAVE_ARGUMENT == 90
NoLineno == 0

VARIABLES
    pc,                    \* position of the conversion
    bytecode,              \* the symbolic input: [instrs, docstring, argnames]
    consts,                \* _ConvertCodeToConcrete.consts: key -> index
    names,                 \* _ConvertCodeToConcrete.names
    varnames,              \* _ConvertCodeToConcrete.varnames
    extended_jumps,        \* jump keys that require EXTENDED_ARG
    need_recompute_jumps,
    targets,               \* label -> byte offset, of the current pass
    jumps,                 \* (offset, instr, label, jump_key) of the current pass
    instructions,          \* concrete instructions of the current pass
    passes,                \* number of passes of the while loop begun
    laid,                  \* offsets and sizes as laid out by the current pass
    prev,                  \* targets and offsets as laid out by the pass before
    concrete,              \* result of to_concrete_bytecode
    symbolic               \* result of ConcreteBytecode.to_bytecode

VARIABLES
    cpc,                   \* position of the byte codec round trip
    cinstrs,               \* the ConcreteBytecode that is assembled
    keep_extended,         \* from_code's extended_arg parameter
    co_code,               \* the assembled bytes
    decoded,               \* from_code's instructions list
    findex,                \* from_code's index
    ext_arg                \* from_code's extended_arg local (UNSET: None)

VARIABLES
    lpc,                   \* position of the line table assembly
    first_lineno,
    linstrs,               \* the instructions, with their lineno
    linenos,               \* output of _assemble_code
    lnotab,                \* the (byte delta, line delta) pairs emitted
    li,                    \* next entry of linenos
    old_offset,
    old_lineno

convVars == <<pc, bytecode, consts, names, varnames, extended_jumps,
              need_recompute_jumps, targets, jumps, instructions, passes,
              laid, prev, concrete, symbolic>>
codecVars == <<cpc, cinstrs, keep_extended, co_code, decoded, findex, ext_arg>>
lnVars == <<lpc, first_lineno, linstrs, linenos, lnotab, li, old_offset,
            old_lineno>>
vars == <<convVars, codecVars, lnVars>>

\* ------------------------------------------------------------ opcode sets
hasjrel == {"JUMP_FORWARD"}
hasjabs == {"JUMP_ABSOLUTE"}
hasconst == {"LOAD_CONST"}
haslocal == {"LOAD_FAST"}
hasname == {"LOAD_NAME"}

EmptyMap == [x \in {} |-> 0]

Put(f, k, v) == [x \in DOMAIN f \cup {k} |-> IF x = k THEN v ELSE f[x]]

\* ------------------------------------------------------ symbolic operands
\* A Python value is its type and its printed value.
\* A Label is an opaque object: n is its identity (0 for every other value).
Value(ty, v) == [ty |-> ty, v |-> v, n |-> 0]
Unset == Value("UNSET", "")
None == Value("NoneType", "None")
LabelOf(l) == [ty |-> "Label", v |-> "", n |-> l]
IsLabel(arg) == arg.ty = "Label"

Label(l) == [kind |-> "Label", name |-> "", arg |-> LabelOf(l), rep |-> 1]
Instr(name, arg) == [kind |-> "Instr", name |-> name, arg |-> arg, rep |-> 1]
NopRun(n) == [kind |-> "Instr", name |-> "NOP", arg |-> Unset, rep |-> n]

\* ---------------------------------------------------------- ConcreteInstr
\* ConcreteInstr.set: the size follows from the argument.
SizeOfArg(arg) ==
    IF arg = UNSET THEN 1
    ELSE IF arg > 65535 THEN 6 ELSE 3

ConcreteInstr(name, arg, rep) ==
    [name |-> name, arg |-> arg, size |-> SizeOfArg(arg), rep |-> rep]

\* ConcreteInstr._check, for an integer argument of an opcode that takes one
ArgInRange(arg) == 0 <= arg /\ arg <= ARG_MAX

\* instr.arg = value: Instr's setter goes through set()
SetArg(instr, arg) == ConcreteInstr(instr.name, arg, instr.rep)

extended_arg(instr) == instr.arg > 65535

get_jump_target(instr, instr_offset) ==
    IF instr.name \in hasjrel THEN instr_offset + instr.size + instr.arg
    ELSE IF instr.name \in hasjabs THEN instr.arg
    ELSE UNSET

IsJump(instr) == instr.name \in hasjrel \cup hasjabs

\* ------------------------------------------------------------------ pools
const_key(value) == <<value.ty, value>>

\* an add_const that never finds the key and always takes a new index
add_const_NoLookup(cs, value) ==
    [pool |-> Put(cs, const_key(value), Cardinality(DOMAIN cs)),
     index |-> Cardinality(DOMAIN cs)]

add_const(cs, value) ==
    LET key == const_key(value) IN
    IF key \in DOMAIN cs
    THEN [pool |-> cs, index |-> cs[key]]
    ELSE [pool |-> Put(cs, key, Cardinality(DOMAIN cs)),
          index |-> Cardinality(DOMAIN cs)]

\* list.index(name): the first position holding name, 0-based
ListIndex(ns, name) ==
    CHOOSE i \in 0..(Len(ns) - 1) :
        ns[i + 1] = name /\ \A j \in 0..(i - 1) : ns[j + 1] # name

add(ns, name) ==
    IF \E i \in 1..Len(ns) : ns[i] = name
    THEN [pool |-> ns, index |-> ListIndex(ns, name)]
    ELSE [pool |-> Append(ns, name), index |-> Len(ns)]

\* --------------------------------------------- concrete_instructions, pass
\* a fake argument that never sizes a flagged jump as extended
FakeArg_NeverExtended(jump_key, ext) == 0

\* the fake argument of a jump, the real one is set by the second loop
FakeArg(jump_key, ext) == IF jump_key \in ext THEN 65536 ELSE 0

\* a jump key that names the label, shared by the jumps to that label
JumpKey_ByLabel(index, label) == label

\* jump_key of a jump of a Bytecode (use_blocks is false): its index
JumpKey(index, label) == index

\* One iteration of "for index, instr in enumerate(block)".
\* st: [targets, jumps, instructions, offset, index, consts, names, varnames]
LayoutInstr(instr, st, ext) ==
    IF instr.kind = "Label"
    THEN [st EXCEPT !.targets = Put(st.targets, instr.arg.n, st.offset),
                    !.index = st.index + 1]
    ELSE
        LET is_jump == IsLabel(instr.arg)
            c == IF instr.name \in hasconst /\ ~is_jump
                 THEN add_const(st.consts, instr.arg)
                 ELSE [pool |-> st.consts, index |-> UNSET]
            v == IF instr.name \in haslocal /\ ~is_jump
                 THEN add(st.varnames, instr.arg.v)
                 ELSE [pool |-> st.varnames, index |-> UNSET]
            n == IF instr.name \in hasname /\ ~is_jump
                 THEN add(st.names, instr.arg.v)
                 ELSE [pool |-> st.names, index |-> UNSET]
            arg == IF is_jump
                   THEN FakeArg(JumpKey(st.index, instr.arg.n), ext)
                   ELSE IF instr.name \in hasconst THEN c.index
                   ELSE IF instr.name \in haslocal THEN v.index
                   ELSE IF instr.name \in hasname THEN n.index
                   ELSE UNSET
            ci == ConcreteInstr(instr.name, arg, instr.rep)
        IN  [targets |-> st.targets,
             jumps |-> IF is_jump
                       THEN Append(st.jumps,
                                   [instr_offset |-> st.offset,
                                    instr |-> Len(st.instructions) + 1,
                                    label |-> instr.arg.n,
                                    jump_key |->
                                        JumpKey(st.index, instr.arg.n)])
                       ELSE st.jumps,
             instructions |-> Append(st.instructions, ci),
             offset |-> st.offset + ci.size * ci.rep,
             index |-> st.index + instr.rep,
             consts |-> c.pool, names |-> n.pool, varnames |-> v.pool]

RECURSIVE LayoutFrom(_, _, _, _)
LayoutFrom(block, i, st, ext) ==
    IF i > Len(block) THEN st
    ELSE LayoutFrom(block, i + 1, LayoutInstr(block[i], st, ext), ext)

\* The first loop of one pass of "while need_recompute_jumps".
Layout(block, cs, ns, vs, ext) ==
    LayoutFrom(block, 1,
               [targets |-> EmptyMap, jumps |-> <<>>, instructions |-> <<>>,
                offset |-> 0, index |-> 0,
                consts |-> cs, names |-> ns, varnames |-> vs],
               ext)

\* a relative argument that forgets the size of the jump itself
RelativeArg_NoSize(target, instr_offset, size) == target - instr_offset

\* the argument of a relative jump: offset - (instr_offset + instr.size)
RelativeArg(target, instr_offset, size) == target - (instr_offset + size)

\* One iteration of "for instr_offset, instr, label, jump_key in jumps".
\* st: [instructions, extended_jumps, need, err]; err is the exception raised.
ResolveJump(j, tg, st) ==
    IF st.err # "" THEN st
    ELSE IF j.label \notin DOMAIN tg THEN [st EXCEPT !.err = "KeyError"]
    ELSE
        LET instr == st.instructions[j.instr]
            offset == IF instr.name \in hasjrel
                      THEN RelativeArg(tg[j.label], j.instr_offset, instr.size)
                      ELSE tg[j.label]
            flag == offset > 65535 /\ ~extended_arg(instr)
            ext == IF flag THEN st.extended_jumps \cup {j.jump_key}
                   ELSE st.extended_jumps
        IN  IF ~ArgInRange(offset)
            THEN [st EXCEPT !.extended_jumps = ext, !.need = st.need \/ flag,
                            !.err = "ValueError"]
            ELSE [instructions |-> [st.instructions EXCEPT
                                       ![j.instr] = SetArg(instr, offset)],
                  extended_jumps |-> ext,
                  need |-> st.need \/ flag,
                  err |-> ""]

RECURSIVE ResolveFrom(_, _, _, _)
ResolveFrom(js, i, tg, st) ==
    IF i > Len(js) THEN st
    ELSE ResolveFrom(js, i + 1, tg, ResolveJump(js[i], tg, st))

\* byte offset of every element of a concrete instruction list
RECURSIVE OffsetsFrom(_, _, _)
OffsetsFrom(instrs, i, off) ==
    IF i > Len(instrs) THEN <<>>
    ELSE <<off>> \o OffsetsFrom(instrs, i + 1,
                                 off + instrs[i].size * instrs[i].rep)

Offsets(instrs) == OffsetsFrom(instrs, 1, 0)

RECURSIVE CodeSize(_)
CodeSize(instrs) ==
    IF instrs = <<>> THEN 0
    ELSE instrs[1].size * instrs[1].rep + CodeSize(Tail(instrs))

\* ------------------------------------------- ConcreteBytecode.to_bytecode
\* "find jump targets": the first loop
JumpTargets(instrs) ==
    LET offs == Offsets(instrs) IN
    {get_jump_target(instrs[i], offs[i]) :
        i \in {k \in 1..Len(instrs) : IsJump(instrs[k])}}

SetMin(S) == CHOOSE x \in S : \A y \in S : x <= y

\* "if offset in jump_targets: label = Label() ..."
\* st: [offset, instructions, labels, jumps, err]
CreateLabel(st, jump_targets) ==
    IF st.offset \in jump_targets
    THEN LET id == Cardinality(DOMAIN st.labels) + 1 IN
         [st EXCEPT !.labels = Put(st.labels, st.offset, id),
                    !.instructions = Append(st.instructions, Label(id))]
    ELSE st

\* the pool lookups of the second loop; an index outside the pool raises
PoolLookupFails(instr, cb) ==
    \/ instr.name \in hasconst /\ instr.arg >= Len(cb.consts)
    \/ instr.name \in haslocal /\ instr.arg >= Len(cb.varnames)
    \/ instr.name \in hasname /\ instr.arg >= Len(cb.names)

PoolLookup(instr, cb) ==
    IF instr.name \in hasconst THEN cb.consts[instr.arg + 1]
    ELSE IF instr.name \in haslocal THEN Value("str", cb.varnames[instr.arg + 1])
    ELSE IF instr.name \in hasname THEN Value("str", cb.names[instr.arg + 1])
    ELSE Unset

\* One iteration of the second loop, for one instruction. The integer argument
\* of a jump is overwritten by the third loop and is not kept here.
ReconstructInstr(instr, st, jump_targets, cb) ==
    LET s1 == CreateLabel(st, jump_targets)
        jump_target == get_jump_target(instr, s1.offset)
    IN  IF st.err # "" THEN st
        ELSE IF PoolLookupFails(instr, cb) THEN [s1 EXCEPT !.err = "IndexError"]
        ELSE [offset |-> s1.offset + instr.size,
              instructions |-> Append(s1.instructions,
                                      Instr(instr.name, PoolLookup(instr, cb))),
              labels |-> s1.labels,
              jumps |-> IF jump_target # UNSET
                        THEN Append(s1.jumps,
                                    [instr |-> Len(s1.instructions) + 1,
                                     jump_target |-> jump_target])
                        ELSE s1.jumps,
              err |-> ""]

\* The same iterations for a run of n one-byte instructions without argument:
\* a label is created before each instruction of the run that is a target.
RECURSIVE ReconstructRun(_, _, _)
ReconstructRun(n, st, jump_targets) ==
    IF n = 0 \/ st.err # "" THEN st
    ELSE LET s1 == CreateLabel(st, jump_targets)
             cut == SetMin({t \in jump_targets :
                               s1.offset < t /\ t < s1.offset + n}
                           \cup {s1.offset + n})
         IN  ReconstructRun(n - (cut - s1.offset),
                            [s1 EXCEPT !.instructions =
                                           Append(s1.instructions,
                                                  NopRun(cut - s1.offset)),
                                       !.offset = cut],
                            jump_targets)

RECURSIVE ReconstructFrom(_, _, _, _, _)
ReconstructFrom(instrs, i, st, jump_targets, cb) ==
    IF i > Len(instrs) THEN st
    ELSE ReconstructFrom(instrs, i + 1,
             IF instrs[i].rep = 1
             THEN ReconstructInstr(instrs[i], st, jump_targets, cb)
             ELSE ReconstructRun(instrs[i].rep, st, jump_targets),
             jump_targets, cb)

\* "replace jump targets with blocks": instr.arg = labels[jump_target]
RECURSIVE ReplaceFrom(_, _, _)
ReplaceFrom(js, i, st) ==
    IF i > Len(js) \/ st.err # "" THEN st
    ELSE IF js[i].jump_target \notin DOMAIN st.labels
         THEN [st EXCEPT !.err = "KeyError"]
         ELSE ReplaceFrom(js, i + 1,
                  [st EXCEPT !.instructions[js[i].instr].arg =
                                 LabelOf(st.labels[js[i].jump_target])])

to_bytecode(cb) ==
    LET jump_targets == JumpTargets(cb.instrs)
        walked == ReconstructFrom(cb.instrs, 1,
                      [offset |-> 0, instructions |-> <<>>,
                       labels |-> EmptyMap, jumps |-> <<>>, err |-> ""],
                      jump_targets, cb)
    IN  ReplaceFrom(walked.jumps, 1, walked)

\* ------------------------------------------------------------- the inputs
SeqsUpTo(S, n) == UNION {[1..k -> S] : k \in 0..n}

Labels == {1, 2}
PadReps == {1, 65530}
JumpOps == {"JUMP_FORWARD", "JUMP_ABSOLUTE"}

JumpElems ==
    {Label(l) : l \in Labels}
    \cup {Instr(op, LabelOf(l)) : op \in JumpOps, l \in Labels}
    \cup {NopRun(n) : n \in PadReps}

\* a Label object is placed at most once in a sequence
PlacedOnce(s) ==
    \A i, j \in 1..Len(s) :
        s[i].kind = "Label" /\ s[j].kind = "Label" /\ s[i] = s[j] => i = j

JumpInputs ==
    {[instrs |-> s, docstring |-> Unset, argnames |-> <<>>] :
        s \in {q \in SeqsUpTo(JumpElems, MaxLen) : PlacedOnce(q)}}

ConstValues == {Value("bool", "1"), Value("int", "1"), Value("str", "a")}
PoolNames == {"x", "y"}

PoolElems ==
    {Instr("LOAD_CONST", v) : v \in ConstValues}
    \cup {Instr("LOAD_FAST", Value("str", n)) : n \in PoolNames}
    \cup {Instr("LOAD_NAME", Value("str", n)) : n \in PoolNames}

\* pool operations between a jump and its far label: one or two passes
PoolInputs ==
    {[instrs |-> <<Instr("JUMP_ABSOLUTE", LabelOf(1))>> \o s
                 \o <<NopRun(65530), Label(1), NopRun(1)>>,
      docstring |-> d, argnames |-> a] :
        s \in SeqsUpTo(PoolElems, MaxPoolOps),
        d \in {Unset, None, Value("str", "a")},
        a \in {<<>>, <<"x">>, <<"y", "x">>}}

\* ------------------------------------------------------------ the actions
NoConcrete == [consts |-> <<>>, names |-> <<>>, varnames |-> <<>>,
               instrs |-> <<>>]
NoSymbolic == [instructions |-> <<>>, labels |-> EmptyMap, err |-> ""]
NoLayout == [targets |-> EmptyMap, offsets |-> <<>>, sizes |-> <<>>]

CodecIdle ==
    /\ cpc = "idle" /\ cinstrs = <<>> /\ keep_extended = FALSE
    /\ co_code = <<>> /\ decoded = <<>> /\ findex = 0 /\ ext_arg = UNSET

LnotabIdle ==
    /\ lpc = "idle" /\ first_lineno = 1 /\ linstrs = <<>> /\ linenos = <<>>
    /\ lnotab = <<>> /\ li = 0 /\ old_offset = 0 /\ old_lineno = 0

ConvIdle ==
    /\ pc = "idle"
    /\ bytecode = [instrs |-> <<>>, docstring |-> Unset, argnames |-> <<>>]
    /\ consts = EmptyMap /\ names = <<>> /\ varnames = <<>>
    /\ extended_jumps = {} /\ need_recompute_jumps = FALSE
    /\ targets = EmptyMap /\ jumps = <<>> /\ instructions = <<>>
    /\ passes = 0 /\ laid = NoLayout /\ prev = NoLayout
    /\ concrete = NoConcrete /\ symbolic = NoSymbolic

\* _ConvertCodeToConcrete(code), before to_concrete_bytecode is called
Init ==
    /\ pc = "start"
    /\ bytecode \in JumpInputs \cup PoolInputs
    /\ consts = EmptyMap /\ names = <<>> /\ varnames = <<>>
    /\ extended_jumps = {} /\ need_recompute_jumps = FALSE
    /\ targets = EmptyMap /\ jumps = <<>> /\ instructions = <<>>
    /\ passes = 0 /\ laid = NoLayout /\ prev = NoLayout
    /\ concrete = NoConcrete /\ symbolic = NoSymbolic
    /\ CodecIdle /\ LnotabIdle

\* to_concrete_bytecode up to the call of concrete_instructions, and
\* concrete_instructions up to its while loop
Start ==
    /\ pc = "start"
    /\ consts' = IF bytecode.docstring # Unset
                 THEN add_const(consts, bytecode.docstring).pool
                 ELSE consts
    /\ varnames' = varnames \o bytecode.argnames
    /\ extended_jumps' = {}
    /\ need_recompute_jumps' = TRUE
    /\ pc' = "loop"
    /\ UNCHANGED <<bytecode, names, targets, jumps, instructions, passes,
                   laid, prev, concrete, symbolic, codecVars, lnVars>>

\* "while need_recompute_jumps:" entered, and the first for loop of the pass
LayoutPass ==
    /\ pc = "loop" /\ need_recompute_jumps /\ passes < MaxPasses
    /\ LET st == Layout(bytecode.instrs, consts, names, varnames,
                        extended_jumps)
       IN  /\ targets' = st.targets
           /\ jumps' = st.jumps
           /\ instructions' = st.instructions
           /\ consts' = st.consts
           /\ names' = st.names
           /\ varnames' = st.varnames
    /\ need_recompute_jumps' = FALSE
    /\ passes' = passes + 1
    /\ laid' = [targets |-> targets', offsets |-> Offsets(instructions'),
                sizes |-> [i \in 1..Len(instructions') |->
                              instructions'[i].size]]
    /\ prev' = laid
    /\ pc' = "resolve"
    /\ UNCHANGED <<bytecode, extended_jumps, concrete, symbolic, codecVars,
                   lnVars>>

\* "fix argument of jump instructions: resolve labels": the second for loop
ResolveJumps ==
    /\ pc = "resolve"
    /\ LET st == ResolveFrom(jumps, 1, targets,
                             [instructions |-> instructions,
                              extended_jumps |-> extended_jumps,
                              need |-> need_recompute_jumps, err |-> ""])
       IN  /\ instructions' = st.instructions
           /\ extended_jumps' = st.extended_jumps
           /\ need_recompute_jumps' = st.need
           /\ pc' = IF st.err # "" THEN st.err ELSE "loop"
    /\ UNCHANGED <<bytecode, consts, names, varnames, targets, jumps, passes,
                   laid, prev, concrete, symbolic, codecVars, lnVars>>

\* consts[index] = item[1] for every item of the dict
ConstsList(cs) ==
    [i \in 1..Cardinality(DOMAIN cs) |->
        IF \E k \in DOMAIN cs : cs[k] = i - 1
        THEN (CHOOSE k \in DOMAIN cs : cs[k] = i - 1)[2]
        ELSE None]

\* the while loop is left, and the rest of to_concrete_bytecode
Finish ==
    /\ pc = "loop" /\ ~need_recompute_jumps
    /\ concrete' = [consts |-> ConstsList(consts), names |-> names,
                    varnames |-> varnames, instrs |-> instructions]
    /\ pc' = "concrete"
    /\ UNCHANGED <<bytecode, consts, names, varnames, extended_jumps,
                   need_recompute_jumps, targets, jumps, instructions, passes,
                   laid, prev, symbolic, codecVars, lnVars>>

\* ConcreteBytecode.to_bytecode on the result
ToBytecode ==
    /\ pc = "concrete"
    /\ LET r == to_bytecode(concrete)
       IN  /\ symbolic' = [instructions |-> r.instructions,
                           labels |-> r.labels, err |-> r.err]
           /\ pc' = IF r.err # "" THEN "to_bytecode_error" ELSE "bytecode"
    /\ UNCHANGED <<bytecode, consts, names, varnames, extended_jumps,
                   need_recompute_jumps, targets, jumps, instructions, passes,
                   laid, prev, concrete, codecVars, lnVars>>

Next == Start \/ LayoutPass \/ ResolveJumps \/ Finish \/ ToBytecode

Spec == Init /\ [][Next]_vars

\* ---------------------------------------------------------- byte codec
opmap == [NOP |-> 9, LOAD_CONST |-> 100, LOAD_NAME |-> 101,
          JUMP_FORWARD |-> 110, JUMP_ABSOLUTE |-> 113, LOAD_FAST |-> 124,
          EXTENDED_ARG |-> 144]

opname(op) == CHOOSE n \in DOMAIN opmap : opmap[n] = op

\* struct.pack('<H', x): two bytes, low byte first
PackH(x) == <<x % 256, x \div 256>>

\* ConcreteInstr.assemble
assemble(instr) ==
    IF instr.arg = UNSET THEN <<opmap[instr.name]>>
    ELSE IF instr.arg > 65535
    THEN <<opmap["EXTENDED_ARG"]>> \o PackH(instr.arg \div 65536)
         \o <<opmap[instr.name]>> \o PackH(instr.arg % 65536)
    ELSE <<opmap[instr.name]>> \o PackH(instr.arg)

\* ConcreteBytecode._assemble_code: code_str
RECURSIVE AssembleBytes(_)
AssembleBytes(instrs) ==
    IF instrs = <<>> THEN <<>>
    ELSE assemble(Head(instrs)) \o AssembleBytes(Tail(instrs))

\* ConcreteInstr.disassemble; offset counts from 0
disassemble(code, offset) ==
    LET op == code[offset + 1]
        arg == IF op >= HAVE_ARGUMENT
               THEN code[offset + 2] + code[offset + 3] * 256
               ELSE UNSET
    IN  ConcreteInstr(opname(op), arg, 1)

\* from_code: "while offset < len(code.co_code)"
RECURSIVE DisassembleFrom(_, _)
DisassembleFrom(code, offset) ==
    IF offset >= Len(code) THEN <<>>
    ELSE LET instr == disassemble(code, offset)
         IN  <<instr>> \o DisassembleFrom(code, offset + instr.size)

\* an argument folded without the shift by 16 bits
FoldedArg_NoShift(extended, arg) == extended + arg

\* arg = (extended_arg << 16) + instr.arg
FoldedArg(extended, arg) == extended * 65536 + arg

\* ConcreteInstr._check of (extended_arg << 16) + arg, which Python computes
\* without bound: extended * 65536 + arg <= ARG_MAX, in 32-bit arithmetic
FoldedInRange(extended, arg) ==
    arg >= 0 /\ extended <= (ARG_MAX - arg) \div 65536

\* Python's "not extended_arg": true of None and of 0
NotTruthy(extended) == extended = UNSET \/ extended = 0

RemoveAt(seq, i) == SubSeq(seq, 1, i - 1) \o SubSeq(seq, i + 1, Len(seq))

CodecOps == {"LOAD_CONST", "EXTENDED_ARG"}
CodecArgs == {0, 1, 65536, ARG_MAX}

CodecElems ==
    {ConcreteInstr("NOP", UNSET, 1)}
    \cup {ConcreteInstr(op, arg, 1) : op \in CodecOps, arg \in CodecArgs}

\* a ConcreteBytecode before to_code and from_code are applied to it
InitCodec ==
    /\ cpc = "assemble"
    /\ cinstrs \in SeqsUpTo(CodecElems, MaxCodeLen)
    /\ keep_extended \in BOOLEAN
    /\ co_code = <<>> /\ decoded = <<>> /\ findex = 0 /\ ext_arg = UNSET
    /\ ConvIdle /\ LnotabIdle

\* to_code: _assemble_code gives the bytes of the code object
Assemble ==
    /\ cpc = "assemble"
    /\ co_code' = AssembleBytes(cinstrs)
    /\ cpc' = "disassemble"
    /\ UNCHANGED <<cinstrs, keep_extended, decoded, findex, ext_arg, convVars,
                   lnVars>>

\* from_code: the first while loop, and the entry of the folding loop
Disassemble ==
    /\ cpc = "disassemble"
    /\ decoded' = DisassembleFrom(co_code, 0)
    /\ findex' = 0
    /\ ext_arg' = UNSET
    /\ cpc' = IF keep_extended THEN "done" ELSE "fold"
    /\ UNCHANGED <<cinstrs, keep_extended, co_code, convVars, lnVars>>

\* from_code: one iteration of "while index < len(instructions)"
FoldStep ==
    /\ cpc = "fold" /\ findex < Len(decoded)
    /\ LET instr == decoded[findex + 1] IN
       IF instr.name = "EXTENDED_ARG" /\ NotTruthy(ext_arg)
       THEN IF ext_arg # UNSET
            THEN /\ cpc' = "EXTENDED_ARG followed by EXTENDED_ARG"
                 /\ UNCHANGED <<decoded, findex, ext_arg>>
            ELSE /\ ext_arg' = instr.arg
                 /\ decoded' = RemoveAt(decoded, findex + 1)
                 /\ UNCHANGED <<cpc, findex>>
       ELSE IF ext_arg # UNSET
            THEN IF instr.arg = UNSET
                 THEN /\ cpc' = "TypeError"
                      /\ UNCHANGED <<decoded, findex, ext_arg>>
                 ELSE IF ~FoldedInRange(ext_arg, instr.arg)
                 THEN /\ cpc' = "arg must be in range"
                      /\ ext_arg' = UNSET
                      /\ UNCHANGED <<decoded, findex>>
                 ELSE /\ decoded' = [decoded EXCEPT ![findex + 1] =
                             ConcreteInstr(instr.name,
                                           FoldedArg(ext_arg, instr.arg), 1)]
                      /\ ext_arg' = UNSET
                      /\ findex' = findex + 1
                      /\ UNCHANGED cpc
            ELSE /\ findex' = findex + 1
                 /\ UNCHANGED <<cpc, decoded, ext_arg>>
    /\ UNCHANGED <<cinstrs, keep_extended, co_code, convVars, lnVars>>

\* from_code: the folding loop is left
FoldEnd ==
    /\ cpc = "fold" /\ findex >= Len(decoded)
    /\ cpc' = IF ext_arg # UNSET THEN "EXTENDED_ARG at the end of the code"
              ELSE "done"
    /\ UNCHANGED <<cinstrs, keep_extended, co_code, decoded, findex, ext_arg,
                   convVars, lnVars>>

NextCodec == Assemble \/ Disassemble \/ FoldStep \/ FoldEnd

SpecCodec == InitCodec /\ [][NextCodec]_vars

\* ------------------------------------------------------------ line table
WithLineno(instr, lineno) ==
    [name |-> instr.name, arg |-> instr.arg, size |-> instr.size,
     rep |-> instr.rep, lineno |-> lineno]

\* ConcreteBytecode._assemble_code: linenos. A run of rep one-byte
\* instructions gives rep entries with the same line; the entries after the
\* first have a line delta of 0 in _assemble_lnotab, which skips them without
\* any effect, and only the first is kept here.
RECURSIVE AssembleLinenos(_, _, _)
AssembleLinenos(instrs, offset, lineno) ==
    IF instrs = <<>> THEN <<>>
    ELSE LET instr == Head(instrs)
             line == IF instr.lineno # NoLineno THEN instr.lineno ELSE lineno
         IN  <<<<offset, line>>>>
             \o AssembleLinenos(Tail(instrs),
                                offset + instr.size * instr.rep, line)

\* "while doff > 255": the (255, 0) pairs
RECURSIVE ByteFillers(_)
ByteFillers(doff) ==
    IF doff > 255 THEN <<<<255, 0>>>> \o ByteFillers(doff - 255) ELSE <<>>

RECURSIVE ByteRest(_)
ByteRest(doff) == IF doff > 255 THEN ByteRest(doff - 255) ELSE doff

\* "while dlineno < -127" and "while dlineno > 126": the (0, -127) and
\* (0, 126) pairs
RECURSIVE LineFillers(_)
LineFillers(dlineno) ==
    IF dlineno < -127 THEN <<<<0, -127>>>> \o LineFillers(dlineno + 127)
    ELSE IF dlineno > 126 THEN <<<<0, 126>>>> \o LineFillers(dlineno - 126)
    ELSE <<>>

RECURSIVE LineRest(_)
LineRest(dlineno) ==
    IF dlineno < -127 THEN LineRest(dlineno + 127)
    ELSE IF dlineno > 126 THEN LineRest(dlineno - 126)
    ELSE dlineno

\* a loop body that does not skip an entry whose line did not change
lnotab_entry_NoSkip(offset, lineno, st) ==
    LET dlineno == lineno - st.old_lineno
        doff == offset - st.old_offset
    IN  [lnotab |-> st.lnotab \o ByteFillers(doff) \o LineFillers(dlineno)
                    \o <<<<ByteRest(doff), LineRest(dlineno)>>>>,
         old_offset |-> offset,
         old_lineno |-> lineno]

\* _assemble_lnotab: the body of "for offset, lineno in linenos"
\* st: [lnotab, old_offset, old_lineno]
lnotab_entry(offset, lineno, st) ==
    LET dlineno == lineno - st.old_lineno
        doff == offset - st.old_offset
    IN  IF dlineno = 0 THEN st
        ELSE [lnotab |-> st.lnotab \o ByteFillers(doff) \o LineFillers(dlineno)
                         \o <<<<ByteRest(doff), LineRest(dlineno)>>>>,
              old_offset |-> offset,
              old_lineno |-> lineno]

LineBases == {ConcreteInstr("NOP", UNSET, 1), ConcreteInstr("NOP", UNSET, 300),
              ConcreteInstr("LOAD_CONST", 0, 1)}
LineNumbers == {NoLineno, 1, 2, 200}
FirstLines == {1, 200}

LineElems == {WithLineno(i, l) : i \in LineBases, l \in LineNumbers}

\* the breakpoints [(0,10), (4,10), (10,12), (300,12)] of first line 10,
\* and the same with a line change at offset 300
Breakpoints == <<<<0, 10>>, <<4, 10>>, <<10, 12>>, <<300, 12>>>>
BreakpointsChanged == <<<<0, 10>>, <<4, 10>>, <<10, 12>>, <<300, 13>>>>

\* a ConcreteBytecode before to_code, or _assemble_lnotab called with a list
InitLnotab ==
    /\ \/ /\ lpc = "assemble_code"
          /\ first_lineno \in FirstLines
          /\ linstrs \in SeqsUpTo(LineElems, MaxLines)
          /\ linenos = <<>>
       \/ /\ lpc = "lnotab"
          /\ first_lineno = 10
          /\ linstrs = <<>>
          /\ linenos \in {Breakpoints, BreakpointsChanged}
    /\ lnotab = <<>> /\ li = 1 /\ old_offset = 0
    /\ old_lineno = first_lineno
    /\ ConvIdle /\ CodecIdle

\* to_code: _assemble_code, and _assemble_lnotab up to its loop
AssembleCode ==
    /\ lpc = "assemble_code"
    /\ linenos' = AssembleLinenos(linstrs, 0, first_lineno)
    /\ lnotab' = <<>>
    /\ li' = 1
    /\ old_offset' = 0
    /\ old_lineno' = first_lineno
    /\ lpc' = "lnotab"
    /\ UNCHANGED <<first_lineno, linstrs, convVars, codecVars>>

\* _assemble_lnotab: one iteration of the for loop
LnotabEntry ==
    /\ lpc = "lnotab" /\ li <= Len(linenos)
    /\ LET st == lnotab_entry(linenos[li][1], linenos[li][2],
                              [lnotab |-> lnotab, old_offset |-> old_offset,
                               old_lineno |-> old_lineno])
       IN  /\ lnotab' = st.lnotab
           /\ old_offset' = st.old_offset
           /\ old_lineno' = st.old_lineno
    /\ li' = li + 1
    /\ UNCHANGED <<lpc, first_lineno, linstrs, linenos, convVars, codecVars>>

\* _assemble_lnotab returns
LnotabReturn ==
    /\ lpc = "lnotab" /\ li > Len(linenos)
    /\ lpc' = "done"
    /\ UNCHANGED <<first_lineno, linstrs, linenos, lnotab, li, old_offset,
                   old_lineno, convVars, codecVars>>

NextLnotab == AssembleCode \/ LnotabEntry \/ LnotabReturn

SpecLnotab == InitLnotab /\ [][NextLnotab]_vars

\* ------------------------------------------- properties of the conversion
\* the instructions of a symbolic sequence, its labels left out: the k-th of
\* them becomes the k-th concrete instruction
InstrElems(s) == SelectSeq(s, LAMBDA e : e.kind = "Instr")

JumpPositions(s) ==
    {i \in 1..Len(s) : s[i].kind = "Instr" /\ IsLabel(s[i].arg)}

NJumps(s) == Cardinality(JumpPositions(s))

LabelPos(s, l) == CHOOSE p \in 1..Len(s) : s[p] = Label(l)

InstrsBefore(s, p) == Cardinality({q \in 1..(p - 1) : s[q].kind = "Instr"})

\* sum of the sizes of the instructions that precede the k-th element
SizeBefore(instrs, k) == CodeSize(SubSeq(instrs, 1, k - 1))

Returned == pc \in {"concrete", "bytecode", "to_bytecode_error"}

\* C1: when concrete_instructions returns, every jump of the returned list
\* has get_jump_target(its own offset) equal to the sum of the sizes of the
\* returned instructions that precede the position of its label.
C1_JumpTargetsExact ==
    Returned =>
        LET src == InstrElems(bytecode.instrs)
            out == concrete.instrs
        IN  /\ Len(out) = Len(src)
            /\ \A k \in 1..Len(out) :
                   IsLabel(src[k].arg) =>
                       get_jump_target(out[k], SizeBefore(out, k)) =
                           SizeBefore(out,
                               InstrsBefore(bytecode.instrs,
                                   LabelPos(bytecode.instrs, src[k].arg.n)) + 1)

\* three passes were needed, and a relative and an absolute jump both ended
\* in the 6-byte form
C1_Witness ==
    /\ pc = "concrete" /\ passes = 3
    /\ \E k \in 1..Len(concrete.instrs) :
           concrete.instrs[k].name \in hasjrel /\ concrete.instrs[k].size = 6
    /\ \E k \in 1..Len(concrete.instrs) :
           concrete.instrs[k].name \in hasjabs /\ concrete.instrs[k].size = 6

\* extended_jumps never loses a key, and the second loop of a pass asks for
\* another pass only when it added a key that was not in it
ExtendedJumpsGrow ==
    /\ extended_jumps \subseteq extended_jumps'
    /\ (pc = "resolve" /\ pc' = "loop" /\ need_recompute_jumps') =>
           extended_jumps' # extended_jumps

PassesBounded ==
    /\ passes <= Cardinality(extended_jumps) + 1
    /\ Cardinality(extended_jumps) <= NJumps(bytecode.instrs)
    /\ passes <= NJumps(bytecode.instrs) + 1
    /\ (pc = "loop" /\ need_recompute_jumps) => passes < MaxPasses

\* C8: the while loop ends by itself. Every pass after the first was asked
\* for by a key newly added to extended_jumps, which never loses a key and
\* holds jump keys only: the passes are at most the number of jump
\* instructions plus one, and the loop is never stopped by MaxPasses.
C8_PassesBounded == [][ExtendedJumpsGrow]_vars /\ []PassesBounded

\* a conversion of two jumps that took three passes
C8_Witness ==
    pc = "concrete" /\ passes = 3 /\ NJumps(bytecode.instrs) = 2

\* C9, as stated: the second pass never flags a new jump.
C9_TwoPasses ==
    (pc = "loop" /\ passes = 2) => ~need_recompute_jumps

\* C9, amended: a sequence with at most one jump converges within two passes;
\* a pass after the first flags a new jump only when an earlier pass flagged
\* another one, so the second pass can do so only with two jumps or more.
C9_TwoPassesOneJump ==
    /\ NJumps(bytecode.instrs) <= 1 => passes <= 2
    /\ (pc = "loop" /\ need_recompute_jumps /\ passes >= 2) =>
           /\ Cardinality(extended_jumps) >= 2
           /\ NJumps(bytecode.instrs) >= 2

\* the only jump was flagged by the first pass and the second pass converged
C9_Witness ==
    /\ pc = "concrete" /\ passes = 2 /\ NJumps(bytecode.instrs) = 1
    /\ Cardinality(extended_jumps) = 1

\* C10: never shrink. Offsets of instructions and labels do not decrease from
\* one pass to the next; after the second loop of a pass every flagged jump
\* has an argument above 0xFFFF; in the result each jump has the size it was
\* laid out with, which is 6 exactly when its argument exceeds 0xFFFF.
C10_NeverShrink ==
    /\ (passes >= 2 /\ pc \in {"resolve", "loop", "concrete"}) =>
           /\ \A i \in 1..Len(prev.offsets) :
                  laid.offsets[i] >= prev.offsets[i]
           /\ \A l \in DOMAIN prev.targets :
                  l \in DOMAIN laid.targets
                  /\ laid.targets[l] >= prev.targets[l]
    /\ pc \in {"loop", "concrete"} =>
           \A i \in 1..Len(jumps) :
               jumps[i].jump_key \in extended_jumps =>
                   instructions[jumps[i].instr].arg > 65535
    /\ pc = "concrete" =>
           \A i \in 1..Len(jumps) :
               LET instr == concrete.instrs[jumps[i].instr] IN
               /\ instr.size = laid.sizes[jumps[i].instr]
               /\ instr.size = (IF jumps[i].jump_key \in extended_jumps
                                THEN 6 ELSE 3)
               /\ instr.size = 6 <=> instr.arg > 65535

\* the third pass moved an instruction and a label, and the jumps flagged by
\* the passes before it are 6 bytes in the result
C10_Witness ==
    /\ pc = "concrete" /\ passes = 3
    /\ \E i \in 1..Len(prev.offsets) : laid.offsets[i] > prev.offsets[i]
    /\ \E l \in DOMAIN prev.targets : laid.targets[l] > prev.targets[l]
    /\ \E i \in 1..Len(jumps) :
           /\ jumps[i].jump_key \in extended_jumps
           /\ concrete.instrs[jumps[i].instr].size = 6

\* the pool a list of operands gives: each new key is appended
RECURSIVE FirstOccurrences(_, _)
FirstOccurrences(pool, operands) ==
    IF operands = <<>> THEN pool
    ELSE FirstOccurrences(
             IF \E i \in 1..Len(pool) : pool[i] = Head(operands)
             THEN pool ELSE Append(pool, Head(operands)),
             Tail(operands))

OperandsOf(s, ops) ==
    LET sel == SelectSeq(s, LAMBDA e : e.kind = "Instr" /\ e.name \in ops)
    IN  [i \in 1..Len(sel) |-> sel[i].arg]

NamesOf(operands) == [i \in 1..Len(operands) |-> operands[i].v]

IsPrefix(a, b) == Len(a) <= Len(b) /\ SubSeq(b, 1, Len(a)) = a

\* once assigned, an index is kept by every later step
PoolIndexKept ==
    /\ \A k \in DOMAIN consts : k \in DOMAIN consts' /\ consts'[k] = consts[k]
    /\ IsPrefix(names, names')
    /\ IsPrefix(varnames, varnames')

\* the pools of the result hold the keys in first-occurrence order, and every
\* instruction carries the index of its own operand
PoolsOfResult ==
    pc = "concrete" =>
        LET src == InstrElems(bytecode.instrs)
            out == concrete.instrs
            doc == IF bytecode.docstring # Unset
                   THEN <<bytecode.docstring>> ELSE <<>>
            pooled == {k \in 1..Len(src) :
                          src[k].name \in hasconst \cup haslocal \cup hasname}
            pool(k) == IF src[k].name \in hasconst THEN concrete.consts
                       ELSE IF src[k].name \in haslocal
                       THEN [i \in 1..Len(concrete.varnames) |->
                                Value("str", concrete.varnames[i])]
                       ELSE [i \in 1..Len(concrete.names) |->
                                Value("str", concrete.names[i])]
        IN  /\ concrete.consts =
                   FirstOccurrences(doc, OperandsOf(bytecode.instrs, hasconst))
            /\ concrete.varnames =
                   FirstOccurrences(bytecode.argnames,
                       NamesOf(OperandsOf(bytecode.instrs, haslocal)))
            /\ concrete.names =
                   FirstOccurrences(<<>>,
                       NamesOf(OperandsOf(bytecode.instrs, hasname)))
            /\ \A k \in pooled :
                   /\ out[k].arg \in 0..(Len(pool(k)) - 1)
                   /\ const_key(pool(k)[out[k].arg + 1]) = const_key(src[k].arg)
            /\ \A j, k \in pooled :
                   src[j].name = src[k].name =>
                       (out[j].arg = out[k].arg
                            <=> const_key(src[j].arg) = const_key(src[k].arg))

\* C4: during one conversion a pool index never changes once assigned, over
\* every pass; the final pools are in first-occurrence order after the
\* docstring and the argument names; two operands share an index exactly when
\* their keys are equal, and each instruction's index leads to its operand.
C4_PoolIndicesStable == [][PoolIndexKept]_vars /\ []PoolsOfResult

\* two passes scanned the operands; True and 1 got two slots after the
\* docstring, and an operand that occurs twice got one index
C4_Witness ==
    /\ pc = "concrete" /\ passes = 2
    /\ bytecode.docstring # Unset
    /\ bytecode.argnames # <<>>
    /\ LET src == InstrElems(bytecode.instrs) IN
       /\ \E j, k \in 1..Len(src) :
              /\ src[j].arg = Value("bool", "1")
              /\ src[k].arg = Value("int", "1")
              /\ concrete.instrs[j].arg # concrete.instrs[k].arg
       /\ \E j, k \in 1..Len(src) :
              /\ j < k /\ src[j] = src[k] /\ src[j].name \in hasconst
              /\ concrete.instrs[j].arg = concrete.instrs[k].arg

\* number of instructions (a run counts rep) before position p
RECURSIVE CountBefore(_, _)
CountBefore(s, p) ==
    IF p <= 1 THEN 0
    ELSE CountBefore(s, p - 1)
         + (IF s[p - 1].kind = "Instr" THEN s[p - 1].rep ELSE 0)

\* byte offset of the n-th instruction (from 0) of the concrete list, UNSET
\* when the list has no such instruction
RECURSIVE OffsetOfInstrFrom(_, _, _, _)
OffsetOfInstrFrom(instrs, i, n, off) ==
    IF i > Len(instrs) THEN UNSET
    ELSE IF n < instrs[i].rep THEN off + n * instrs[i].size
    ELSE OffsetOfInstrFrom(instrs, i + 1, n - instrs[i].rep,
                           off + instrs[i].size * instrs[i].rep)

OffsetOfInstr(instrs, n) == OffsetOfInstrFrom(instrs, 1, n, 0)

\* C2: to_bytecode of an assembled sequence succeeds; one Label per distinct
\* target offset; every jump carries the Label that sits immediately before
\* the instruction at the jump's resolved byte target.
C2_ReconstructPreservesJumps ==
    pc \in {"bytecode", "to_bytecode_error"} =>
        /\ pc = "bytecode"
        /\ LET out == symbolic.instructions
               rec == InstrElems(out)
               cin == concrete.instrs
               offs == Offsets(cin)
               labelAt(id) == CHOOSE p \in 1..Len(out) : out[p] = Label(id)
           IN  /\ Cardinality(DOMAIN symbolic.labels)
                      = Cardinality(JumpTargets(cin))
               /\ Cardinality({p \in 1..Len(out) : out[p].kind = "Label"})
                      = Cardinality(JumpTargets(cin))
               /\ Len(rec) = Len(cin)
               /\ \A k \in 1..Len(cin) :
                      IsJump(cin[k]) =>
                          /\ IsLabel(rec[k].arg)
                          /\ \E p \in 1..Len(out) : out[p] = Label(rec[k].arg.n)
                          /\ labelAt(rec[k].arg.n) < Len(out)
                          /\ out[labelAt(rec[k].arg.n) + 1].kind = "Instr"
                          /\ OffsetOfInstr(cin,
                                 CountBefore(out, labelAt(rec[k].arg.n)))
                               = get_jump_target(cin[k], offs[k])

\* the same with the failing case left out: it holds when no jump targets
\* the end of the code
ReconstructWhenTargetInside ==
    (pc \in {"bytecode", "to_bytecode_error"}
     /\ CodeSize(concrete.instrs) \notin JumpTargets(concrete.instrs))
        => C2_ReconstructPreservesJumps

\* -------------------------------------------- properties of the byte codec
FoldErrors == {"EXTENDED_ARG followed by EXTENDED_ARG",
               "EXTENDED_ARG at the end of the code",
               "TypeError", "arg must be in range"}

FoldEnded == cpc \in FoldErrors \cup {"done"}

HasExtendedArg(instrs) ==
    \E i \in 1..Len(instrs) : instrs[i].name = "EXTENDED_ARG"

SameOpcodeAndArg(a, b) ==
    /\ Len(a) = Len(b)
    /\ \A i \in 1..Len(a) : a[i].name = b[i].name /\ a[i].arg = b[i].arg

\* C3, as stated: every jump-free sequence of valid instructions is decoded,
\* with folding, to the same (opcode, argument) list.
C3_RoundTrip ==
    (FoldEnded /\ ~keep_extended) =>
        cpc = "done" /\ SameOpcodeAndArg(decoded, cinstrs)

\* C3, amended: the same for the sequences that hold no EXTENDED_ARG
\* instruction of their own.
C3_RoundTripNoExtendedArg ==
    (FoldEnded /\ ~keep_extended /\ ~HasExtendedArg(cinstrs)) =>
        cpc = "done" /\ SameOpcodeAndArg(decoded, cinstrs)

\* an argument above 0xFFFF went through the 6-byte form and came back
C3_Witness ==
    /\ cpc = "done" /\ ~keep_extended /\ ~HasExtendedArg(cinstrs)
    /\ Len(co_code) >= 7
    /\ \E i \in 1..Len(cinstrs) :
           cinstrs[i].arg = ARG_MAX /\ decoded[i].arg = ARG_MAX
    /\ \E i \in 1..Len(cinstrs) : cinstrs[i].arg = UNSET

\* C5: with folding, for the first EXTENDED_ARG of the decoded list: followed
\* by another EXTENDED_ARG, the call fails with "EXTENDED_ARG followed by
\* EXTENDED_ARG" whatever its argument; last of the list, the call fails with
\* "EXTENDED_ARG at the end of the code"; otherwise it is removed and the next
\* instruction gets (value << 16) + its own argument (stated here for a next
\* instruction that has an argument and a sum within ARG_MAX).
C5_ExtendedArgFolding ==
    (FoldEnded /\ ~keep_extended) =>
        LET raw == DisassembleFrom(co_code, 0) IN
        \A i \in 1..Len(raw) :
            (raw[i].name = "EXTENDED_ARG"
             /\ \A j \in 1..(i - 1) : raw[j].name # "EXTENDED_ARG") =>
                IF i = Len(raw)
                THEN cpc = "EXTENDED_ARG at the end of the code"
                ELSE IF raw[i + 1].name = "EXTENDED_ARG"
                THEN cpc = "EXTENDED_ARG followed by EXTENDED_ARG"
                ELSE (/\ raw[i + 1].arg # UNSET
                      /\ FoldedInRange(raw[i].arg, raw[i + 1].arg)
                      /\ cpc = "done") =>
                         /\ decoded[i].name = raw[i + 1].name
                         /\ decoded[i].arg =
                                raw[i].arg * 65536 + raw[i + 1].arg

\* -------------------------------------------- properties of the line table
\* C6, as stated: for the breakpoints [(0,10), (4,10), (10,12), (300,12)] and
\* first line 10 the (4,10) entry gives no output and the byte gap of 290
\* between 10 and 300 gives one (255,0) filler followed by a (35,0) pair.
C6_Breakpoints ==
    (lpc = "done" /\ linenos = Breakpoints /\ first_lineno = 10) =>
        lnotab = <<<<10, 2>>, <<255, 0>>, <<35, 0>>>>

\* C6, amended: the (4,10) entry and the (300,12) entry give no output, their
\* line being the running line, and the table is the pair (10,2) alone; a
\* byte gap above 255 is split at an entry whose line changes: with (300,13)
\* the gap of 290 gives (255,0) followed by (35,1).
C6_BreakpointsLineChange ==
    (lpc = "done" /\ first_lineno = 10) =>
        /\ linenos = Breakpoints => lnotab = <<<<10, 2>>>>
        /\ linenos = BreakpointsChanged =>
               lnotab = <<<<10, 2>>, <<255, 0>>, <<35, 1>>>>

C6_Witness ==
    /\ lpc = "done" /\ first_lineno = 10 /\ linenos = Breakpoints
    /\ li = 5 /\ old_offset = 10 /\ old_lineno = 12

\* the decoder: both deltas are accumulated from (0, first line); the line at
\* offset o is the accumulated line after the last pair whose accumulated
\* offset is <= o
RECURSIVE DecodeFrom(_, _, _, _, _, _)
DecodeFrom(pairs, i, off, line, o, cur) ==
    IF i > Len(pairs) THEN cur
    ELSE LET off2 == off + pairs[i][1]
             line2 == line + pairs[i][2]
         IN  DecodeFrom(pairs, i + 1, off2, line2, o,
                        IF off2 <= o THEN line2 ELSE cur)

DecodedLine(pairs, first, o) == DecodeFrom(pairs, 1, 0, first, o, first)

\* C7: decoding the table gives every instruction the line _assemble_code
\* attributed to it.
C7_LnotabRoundTrip ==
    (lpc = "done" /\ linstrs # <<>>) =>
        \A k \in 1..Len(linstrs) :
            \A d \in 0..(linstrs[k].rep - 1) :
                DecodedLine(lnotab, first_lineno, linenos[k][1] + d)
                    = linenos[k][2]

\* the same when no line delta needs a (0,126) or (0,-127) filler
LnotabRoundTripSmallDelta ==
    (\A i \in 1..Len(lnotab) : lnotab[i] \notin {<<0, 126>>, <<0, -127>>})
        => C7_LnotabRoundTrip

====
